---- MODULE Spec2Model ----
(***************************************************************************)
(* Model of src/src/App.vue: the hosts-file line parser and renderer, the  *)
(* reactive line-model store with its delete / restore / renew handlers,   *)
(* the fuzzy-ranked entry view and the file loader.                         *)
(*                                                                         *)
(* A JavaScript string is a sequence of glyphs; a glyph is a one-element   *)
(* piece of text written as a TLA+ string.  " " is the space character,    *)
(* "\t" the tab.  The glyph "undefined" stands for the nine-letter word:   *)
(* the one-glyph string <<"undefined">> is the JavaScript string           *)
(* "undefined".  The JavaScript value undefined is JSUndefined.            *)
(***************************************************************************)
EXTENDS Integers, Sequences, FiniteSets

VARIABLES
    file,             \* the lines readline will emit for /etc/hosts
    readPos,          \* number of `line` events already delivered
    loadPc,           \* "reading" | "closed" | "loaded"
    pending,          \* the local array lineModels of fetchLineModels
    internalCounter,  \* the closure variable of getNextId
    lineModels,       \* the reactive store of setup()
    searchString,     \* ref<string | undefined>
    renews,           \* the renew operations started so far, in start order
    line,             \* parser/renderer harness: the raw input line
    model,            \* parser/renderer harness: stringToLineModel(line)
    text,             \* parser/renderer harness: renderLineModel(model)
    linePc            \* parser/renderer harness: "off" | "input" | "parsed" | "rendered"

vars == <<file, readPos, loadPc, pending, internalCounter, lineModels,
          searchString, renews, line, model, text, linePc>>

storeVars == <<file, readPos, loadPc, pending, internalCounter, lineModels,
               searchString, renews>>

lineVars == <<line, model, text, linePc>>

(***************************************************************************)
(* Bounds                                                                  *)
(***************************************************************************)
MaxRenews == 2      \* renew clicks per session
MaxLineLen == 4     \* glyphs per line in the parser/renderer harness

(***************************************************************************)
(* JavaScript values and string primitives                                 *)
(***************************************************************************)
JSUndefined == <<"<undefined>">>

\* String.prototype.trim strips these; the split regex / +/ only the first
WhiteSpace == {" ", "\t"}

\* obj.name on a record that may lack the field
Prop(object, name) == IF name \in DOMAIN object THEN object[name] ELSE JSUndefined

\* `${v}` : template-literal conversion
TemplateString(v) == IF v = JSUndefined THEN <<"undefined">> ELSE v

RECURSIVE TrimStart(_)
TrimStart(s) ==
    IF s = <<>> THEN s
    ELSE IF Head(s) \in WhiteSpace THEN TrimStart(Tail(s)) ELSE s

RECURSIVE TrimEnd(_)
TrimEnd(s) ==
    IF s = <<>> THEN s
    ELSE IF s[Len(s)] \in WhiteSpace THEN TrimEnd(SubSeq(s, 1, Len(s) - 1)) ELSE s

Trim(s) == TrimEnd(TrimStart(s))

RECURSIVE SkipSpaces(_)
SkipSpaces(s) ==
    IF s = <<>> THEN s
    ELSE IF Head(s) = " " THEN SkipSpaces(Tail(s)) ELSE s

\* s.split(/ +/ui), continuing the token `cur`
RECURSIVE SplitFrom(_, _)
SplitFrom(s, cur) ==
    IF s = <<>> THEN <<cur>>
    ELSE IF Head(s) = " " THEN <<cur>> \o SplitFrom(SkipSpaces(s), <<>>)
    ELSE SplitFrom(Tail(s), Append(cur, Head(s)))

SplitSpaces(s) == SplitFrom(s, <<>>)

\* parts.join(' ')
RECURSIVE JoinSpace(_)
JoinSpace(parts) ==
    IF parts = <<>> THEN <<>>
    ELSE IF Len(parts) = 1 THEN parts[1]
    ELSE parts[1] \o <<" ">> \o JoinSpace(Tail(parts))

(***************************************************************************)
(* getNextId, stringToLineModel, isEntry, renderLineModel, flushFile        *)
(***************************************************************************)
\* a bug variant: the counter is read but not advanced
getNextIdNoIncrement(counter) == [value |-> counter, next |-> counter]

\* () => internalCounter++
getNextId(counter) == [value |-> counter, next |-> counter + 1]

stringToLineModel(rawLine, counter) ==
    LET trimmed == Trim(rawLine)
        lineParts == SplitSpaces(trimmed)
    IN  IF (trimmed # <<>> /\ Head(trimmed) = "#") \/ Len(trimmed) = 0
        THEN [id |-> getNextId(counter).value, isDeleted |-> FALSE, value |-> trimmed]
        ELSE [id |-> getNextId(counter).value, isDeleted |-> FALSE,
              ipAddress |-> lineParts[1],
              domains |-> SubSeq(lineParts, 2, Len(lineParts))]

isEntry(object) ==
    /\ "domains" \in DOMAIN object
    /\ Prop(object, "ipAddress") # <<"undefined">>

renderLineModel(lineModel) ==
    IF isEntry(lineModel)
    THEN TemplateString(lineModel.ipAddress) \o <<" ">> \o JoinSpace(lineModel.domains)
    ELSE Prop(lineModel, "value")

\* Array.prototype.join writes undefined as the empty string
JoinItem(v) == IF v = JSUndefined THEN <<>> ELSE v

RECURSIVE SelectNotDeleted(_)
SelectNotDeleted(models) ==
    IF models = <<>> THEN <<>>
    ELSE IF Head(models).isDeleted THEN SelectNotDeleted(Tail(models))
    ELSE <<Head(models)>> \o SelectNotDeleted(Tail(models))

\* a bug variant: records marked deleted are left out of the written text
flushFileSkipDeleted(models) ==
    [i \in 1..Len(SelectNotDeleted(models)) |->
        JoinItem(renderLineModel(SelectNotDeleted(models)[i]))]

\* the text written to hosts.temp, as the sequence of its "\n"-joined lines
flushFile(models) ==
    [i \in 1..Len(models) |-> JoinItem(renderLineModel(models[i]))]

(***************************************************************************)
(* Entry search ranker: sortLineModelsBySearchString and the library call   *)
(* StringSimilarity.findBestMatch it makes (Dice coefficient over bigrams). *)
(* A rating is the fraction num/den.                                        *)
(***************************************************************************)
RECURSIVE StripWhiteSpace(_)
StripWhiteSpace(s) ==
    IF s = <<>> THEN s
    ELSE IF Head(s) \in WhiteSpace THEN StripWhiteSpace(Tail(s))
    ELSE <<Head(s)>> \o StripWhiteSpace(Tail(s))

Bigrams(s) == [i \in 1..(Len(s) - 1) |-> <<s[i], s[i + 1]>>]

RemoveAt(s, i) == SubSeq(s, 1, i - 1) \o SubSeq(s, i + 1, Len(s))

\* bigrams of `second` matched, each against a not yet used bigram of `first`
RECURSIVE IntersectionSize(_, _)
IntersectionSize(firstBigrams, secondBigrams) ==
    IF secondBigrams = <<>> THEN 0
    ELSE IF \E i \in 1..Len(firstBigrams) : firstBigrams[i] = Head(secondBigrams)
         THEN LET i == CHOOSE j \in 1..Len(firstBigrams) :
                           firstBigrams[j] = Head(secondBigrams)
              IN  1 + IntersectionSize(RemoveAt(firstBigrams, i), Tail(secondBigrams))
         ELSE IntersectionSize(firstBigrams, Tail(secondBigrams))

compareTwoStrings(a, b) ==
    LET first == StripWhiteSpace(a)
        second == StripWhiteSpace(b)
    IN  IF first = second THEN [num |-> 1, den |-> 1]
        ELSE IF Len(first) < 2 \/ Len(second) < 2 THEN [num |-> 0, den |-> 1]
        ELSE [num |-> 2 * IntersectionSize(Bigrams(first), Bigrams(second)),
              den |-> Len(first) + Len(second) - 2]

RatingLess(r, s) == r.num * s.den < s.num * r.den

\* Math.max(...findBestMatch(searchString, domains).ratings.map(r => r.rating))
bestMatchRating(query, domains) ==
    LET ratings == {compareTwoStrings(query, domains[i]) : i \in 1..Len(domains)}
    IN  CHOOSE r \in ratings : \A s \in ratings : ~RatingLess(r, s)

\* findBestMatch throws "Bad arguments" on an empty array of target strings
findBestMatchThrows(domains) == domains = <<>>

\* the comparator's result is positive: rightEntry sorts before leftEntry
sortLineModelsBySearchString(query, leftEntry, rightEntry) ==
    RatingLess(bestMatchRating(query, leftEntry.domains),
               bestMatchRating(query, rightEntry.domains))

RECURSIVE Filter(_)
Filter(models) ==
    IF models = <<>> THEN <<>>
    ELSE IF isEntry(Head(models)) THEN <<Head(models)>> \o Filter(Tail(models))
    ELSE Filter(Tail(models))

\* stable insertion of x into the sorted sequence s
RECURSIVE InsertSorted(_, _, _)
InsertSorted(query, s, x) ==
    IF s = <<>> THEN <<x>>
    ELSE IF sortLineModelsBySearchString(query, Head(s), x)
         THEN <<x>> \o s
         ELSE <<Head(s)>> \o InsertSorted(query, Tail(s), x)

RECURSIVE Sort(_, _)
Sort(query, s) ==
    IF s = <<>> THEN <<>>
    ELSE InsertSorted(query, Sort(query, SubSeq(s, 1, Len(s) - 1)), s[Len(s)])

\* searchString.value ?? ""
Query(search) == IF search = JSUndefined THEN <<>> ELSE search

\* the comparator runs on every element once there are two of them
sortedEntriesThrows(models) ==
    /\ Len(Filter(models)) >= 2
    /\ \E i \in 1..Len(Filter(models)) : findBestMatchThrows(Filter(models)[i].domains)

\* lineModels.filter(isEntry).sort(...): the value of the computed view
sortedEntries(models, search) ==
    IF sortedEntriesThrows(models) THEN <<>>
    ELSE Sort(Query(search), Filter(models))

(***************************************************************************)
(* Remote lookup responses and the renew handlers                          *)
(***************************************************************************)
Pending == [status |-> "pending", ip_addresses |-> <<>>]

\* a rejected axios.get, a 200 with no candidate, a 200 with two candidates
Responses ==
    { [status |-> "failed", ip_addresses |-> <<>>],
      [status |-> "ok", ip_addresses |-> <<>>],
      [status |-> "ok", ip_addresses |-> << <<"9">>, <<"8">> >>] }

\* arr[k] on a JavaScript array (zero-based)
Index(arr, k) == IF (k + 1) \in DOMAIN arr THEN arr[k + 1] ELSE JSUndefined

\* a bug variant: failed requests are not propagated, the join only waits
PromiseAllIgnoringFailures(resp) ==
    IF \E k \in DOMAIN resp : resp[k].status = "pending" THEN "pending"
    ELSE "fulfilled"

\* Promise.all over the per-domain requests
PromiseAll(resp) ==
    IF \E k \in DOMAIN resp : resp[k].status = "failed" THEN "rejected"
    ELSE IF \E k \in DOMAIN resp : resp[k].status = "pending" THEN "pending"
    ELSE "fulfilled"

\* a bug variant: the address is taken from the last response
thenHandlerLastResponse(models, e, responses) ==
    IF Len(responses) > 0
    THEN [models EXCEPT ![e].ipAddress = Index(responses[Len(responses)].ip_addresses, 0)]
    ELSE models

\* .then(responses => { ... entry.ipAddress = firstResponse.ip_addresses[0] })
thenHandler(models, e, responses) ==
    IF Len(responses) > 0
    THEN [models EXCEPT ![e].ipAddress = Index(responses[1].ip_addresses, 0)]
    ELSE models

\* .catch(error => { console.log(error); alert(...) }): one more alert
catchHandler(alerts) == alerts + 1

\* a bug variant: the record is spliced out of the store
onDeleteEntryButtonClickSplice(models, i) == RemoveAt(models, i)

onDeleteEntryButtonClick(models, i) == [models EXCEPT ![i].isDeleted = TRUE]

onRestoreEntryButtonClick(models, i) == [models EXCEPT ![i].isDeleted = FALSE]

\* a bug variant: each record is published to the store as its line is read
lineHandlerPushToStore(local, store, record) ==
    [local |-> Append(local, record), store |-> Append(store, record)]

\* .on(`line`, ...): the record goes to the local array of fetchLineModels
lineHandler(local, store, record) ==
    [local |-> Append(local, record), store |-> store]

(***************************************************************************)
(* Inputs                                                                  *)
(***************************************************************************)
LnTwoDomains == <<"1", " ", "a", "b", " ", "b", "a">>
LnComment == <<"#", " ", "c">>
LnOneDomain == <<"2", " ", " ", "b", "a", "\t">>
LnNoDomain == <<"3">>
LnUndefinedWord == <<"undefined", " ", "a", "b">>
LnBlank == <<>>

Files ==
    { <<>>,
      <<LnTwoDomains, LnComment, LnOneDomain>>,
      <<LnNoDomain, LnBlank>>,
      <<LnUndefinedWord, LnOneDomain>>,
      <<LnNoDomain, LnOneDomain>> }

Queries == { <<>>, <<"b", "a">> }

LineAlphabet == {" ", "\t", "#", "a", "b"}

LinesUpTo(n) == UNION { [1..k -> LineAlphabet] : k \in 0..n }

NoModel == [id |-> 0, isDeleted |-> FALSE, value |-> <<>>]

(***************************************************************************)
(* The session: loading, user actions, renew completions                   *)
(***************************************************************************)
Init ==
    /\ file \in Files
    /\ readPos = 0
    /\ loadPc = "reading"
    /\ pending = <<>>
    /\ internalCounter = 0
    /\ lineModels = <<>>
    /\ searchString = JSUndefined
    /\ renews = <<>>
    /\ line = <<>>
    /\ model = NoModel
    /\ text = <<>>
    /\ linePc = "off"

\* readline `line` event
OnLine ==
    /\ loadPc = "reading"
    /\ readPos < Len(file)
    /\ LET record == stringToLineModel(file[readPos + 1], internalCounter)
           after == lineHandler(pending, lineModels, record)
       IN  /\ pending' = after.local
           /\ lineModels' = after.store
    /\ internalCounter' = getNextId(internalCounter).next
    /\ readPos' = readPos + 1
    /\ UNCHANGED <<file, loadPc, searchString, renews, lineVars>>

\* readline `close` event: resolve(lineModels)
OnClose ==
    /\ loadPc = "reading"
    /\ readPos = Len(file)
    /\ loadPc' = "closed"
    /\ UNCHANGED <<file, readPos, pending, internalCounter, lineModels,
                   searchString, renews, lineVars>>

\* fetchLineModels().then(obtained => lineModels.push(...obtained))
OnLoaded ==
    /\ loadPc = "closed"
    /\ lineModels' = lineModels \o pending
    /\ loadPc' = "loaded"
    /\ UNCHANGED <<file, readPos, pending, internalCounter, searchString,
                   renews, lineVars>>

\* the row of record i is on screen with its buttons
Displayed(i) ==
    /\ i \in DOMAIN lineModels
    /\ isEntry(lineModels[i])
    /\ ~sortedEntriesThrows(lineModels)

DeleteClick(i) ==
    /\ Displayed(i)
    /\ ~lineModels[i].isDeleted
    /\ lineModels' = onDeleteEntryButtonClick(lineModels, i)
    /\ UNCHANGED <<file, readPos, loadPc, pending, internalCounter,
                   searchString, renews, lineVars>>

RestoreClick(i) ==
    /\ Displayed(i)
    /\ lineModels[i].isDeleted
    /\ lineModels' = onRestoreEntryButtonClick(lineModels, i)
    /\ UNCHANGED <<file, readPos, loadPc, pending, internalCounter,
                   searchString, renews, lineVars>>

\* onSearchStringInput, after the debounce delay
SearchInput(q) ==
    /\ searchString # q
    /\ searchString' = q
    /\ UNCHANGED <<file, readPos, loadPc, pending, internalCounter,
                   lineModels, renews, lineVars>>

\* onRenewEntryButtonClick: one request per domain, joined by Promise.all
RenewClick(i) ==
    /\ Displayed(i)
    /\ Len(renews) < MaxRenews
    /\ LET resp == [k \in 1..Len(lineModels[i].domains) |-> Pending]
           state == PromiseAll(resp)
       IN  /\ renews' = Append(renews, [entry |-> i, resp |-> resp, order |-> <<>>,
                                        state |-> state, alerts |-> 0])
           /\ lineModels' = IF state = "fulfilled"
                            THEN thenHandler(lineModels, i, resp)
                            ELSE lineModels
    /\ UNCHANGED <<file, readPos, loadPc, pending, internalCounter,
                   searchString, lineVars>>

\* the request for domain k of renew operation o completes with response r;
\* the promise reactions it triggers run before any other event
ResponseArrives(o, k, r) ==
    /\ o \in DOMAIN renews
    /\ k \in DOMAIN renews[o].resp
    /\ renews[o].resp[k] = Pending
    /\ LET op == renews[o]
           resp == [op.resp EXCEPT ![k] = r]
           state == IF op.state = "pending" THEN PromiseAll(resp) ELSE op.state
           settles == op.state = "pending" /\ state # "pending"
       IN  /\ renews' = [renews EXCEPT ![o] =
                           [entry |-> op.entry, resp |-> resp,
                            order |-> Append(op.order, k), state |-> state,
                            alerts |-> IF settles /\ state = "rejected"
                                       THEN catchHandler(op.alerts)
                                       ELSE op.alerts]]
           /\ lineModels' = IF settles /\ state = "fulfilled"
                            THEN thenHandler(lineModels, op.entry, resp)
                            ELSE lineModels
    /\ UNCHANGED <<file, readPos, loadPc, pending, internalCounter,
                   searchString, lineVars>>

Next ==
    \/ OnLine
    \/ OnClose
    \/ OnLoaded
    \/ \E i \in DOMAIN lineModels : DeleteClick(i)
    \/ \E i \in DOMAIN lineModels : RestoreClick(i)
    \/ \E q \in Queries : SearchInput(q)
    \/ \E i \in DOMAIN lineModels : RenewClick(i)
    \/ \E o \in DOMAIN renews : \E k \in 1..2 : \E r \in Responses :
          ResponseArrives(o, k, r)

Spec == Init /\ [][Next]_vars

(***************************************************************************)
(* The parser and renderer applied to one line                             *)
(***************************************************************************)
LineInit ==
    /\ file = <<>>
    /\ readPos = 0
    /\ loadPc = "reading"
    /\ pending = <<>>
    /\ internalCounter = 0
    /\ lineModels = <<>>
    /\ searchString = JSUndefined
    /\ renews = <<>>
    /\ line \in LinesUpTo(MaxLineLen)
    /\ model = NoModel
    /\ text = <<>>
    /\ linePc = "input"

ParseLine ==
    /\ linePc = "input"
    /\ model' = stringToLineModel(line, internalCounter)
    /\ internalCounter' = getNextId(internalCounter).next
    /\ linePc' = "parsed"
    /\ UNCHANGED <<file, readPos, loadPc, pending, lineModels, searchString,
                   renews, line, text>>

RenderLine ==
    /\ linePc = "parsed"
    /\ text' = renderLineModel(model)
    /\ linePc' = "rendered"
    /\ UNCHANGED <<storeVars, line, model>>

LineNext == ParseLine \/ RenderLine

LineSpec == LineInit /\ [][LineNext]_vars

(***************************************************************************)
(* Vocabulary of the properties                                            *)
(***************************************************************************)
Loaded == loadPc = "loaded"

\* a record built by the mapping branch of the parser
IsMapping(record) == "domains" \in DOMAIN record

\* the record the parser builds for line i of the file
Parsed(i) == stringToLineModel(file[i], i - 1)

HasFailure(op) == \E k \in DOMAIN op.resp : op.resp[k].status = "failed"

HasPending(op) == \E k \in DOMAIN op.resp : op.resp[k].status = "pending"

AllSucceeded(op) == \A k \in DOMAIN op.resp : op.resp[k].status = "ok"

\* operation o was started or advanced by the step
Stepped(o) == o \notin DOMAIN renews \/ renews[o] # renews'[o]

\* record i is the same before and after the step, field `name` aside
SameExcept(i, name) ==
    /\ DOMAIN lineModels'[i] = DOMAIN lineModels[i]
    /\ \A f \in DOMAIN lineModels[i] \ {name} : lineModels'[i][f] = lineModels[i][f]

\* maximal runs of non-whitespace glyphs, in order
RECURSIVE WhiteSpaceTokens(_, _)
WhiteSpaceTokens(s, cur) ==
    IF s = <<>> THEN (IF cur = <<>> THEN <<>> ELSE <<cur>>)
    ELSE IF Head(s) \in WhiteSpace
         THEN (IF cur = <<>> THEN <<>> ELSE <<cur>>) \o WhiteSpaceTokens(Tail(s), <<>>)
         ELSE WhiteSpaceTokens(Tail(s), Append(cur, Head(s)))

\* every run of spaces replaced by one space
RECURSIVE CollapseSpaces(_)
CollapseSpaces(s) ==
    IF Len(s) < 2 THEN s
    ELSE IF s[1] = " " /\ s[2] = " " THEN CollapseSpaces(Tail(s))
    ELSE <<s[1]>> \o CollapseSpaces(Tail(s))

(***************************************************************************)
(* C1: once the file is loaded, the text produced for save holds exactly    *)
(* one line per line of the file, in file order, whatever was deleted,      *)
(* restored, renewed or searched: a comment or blank line as its trimmed    *)
(* text, a listed mapping line as its current address followed by the       *)
(* domains of the file's line.                                              *)
(***************************************************************************)
C1_SaveKeepsEveryRecord ==
    Loaded =>
        LET out == flushFile(lineModels)
        IN  /\ Len(out) = Len(file)
            /\ \A i \in 1..Len(file) :
                  /\ i \in DOMAIN lineModels
                  /\ lineModels[i].id = Parsed(i).id
                  /\ ~IsMapping(Parsed(i)) => out[i] = Trim(file[i])
                  /\ isEntry(lineModels[i]) =>
                        out[i] = TemplateString(lineModels[i].ipAddress) \o <<" ">>
                                    \o JoinSpace(Parsed(i).domains)

\* a deleted and renewed record still has its line in the text for save
C1_Witness ==
    /\ Loaded
    /\ \E i \in DOMAIN lineModels :
          /\ IsMapping(lineModels[i])
          /\ lineModels[i].isDeleted
          /\ lineModels[i].ipAddress = <<"9">>
          /\ flushFile(lineModels)[i] = <<"9", " ", "a", "b", " ", "b", "a">>

(***************************************************************************)
(* C2: a renew operation over two or more domains with a failed request     *)
(* has raised exactly one alert, and no step of that operation changes the  *)
(* store, whatever the other requests answer and in whatever order.         *)
(***************************************************************************)
C2_FailedRenewLeavesRecord ==
    /\ [](\A o \in DOMAIN renews :
            (Len(renews[o].resp) >= 2 /\ HasFailure(renews[o])) => renews[o].alerts = 1)
    /\ [][\A o \in DOMAIN renews' :
            (Len(renews'[o].resp) >= 2 /\ HasFailure(renews'[o]) /\ Stepped(o))
                => lineModels' = lineModels]_vars

\* the second request answered first and succeeded, the first then failed
C2_Witness ==
    \E o \in DOMAIN renews :
        /\ Len(renews[o].resp) = 2
        /\ renews[o].order = <<2, 1>>
        /\ renews[o].resp[1].status = "failed"
        /\ renews[o].resp[2].ip_addresses # <<>>
        /\ renews[o].alerts = 1
        /\ renews[o].entry \in DOMAIN lineModels
        /\ lineModels[renews[o].entry].ipAddress = <<"1">>

(***************************************************************************)
(* C3: a renew whose response for the first domain is a success with an     *)
(* empty candidate list is a failure: it raises an alert, and no mapping    *)
(* record's address is ever the value undefined.                            *)
(***************************************************************************)
C3_EmptyCandidatesIsFailure ==
    /\ \A i \in DOMAIN lineModels :
          IsMapping(lineModels[i]) => lineModels[i].ipAddress # JSUndefined
    /\ \A o \in DOMAIN renews :
          ( /\ Len(renews[o].resp) >= 1
            /\ ~HasPending(renews[o])
            /\ renews[o].resp[1].status = "ok"
            /\ renews[o].resp[1].ip_addresses = <<>> ) => renews[o].alerts = 1

(***************************************************************************)
(* C4: for an empty line, a comment line, or a mapping line whose tokens    *)
(* are separated by runs of spaces, rendering the parsed line gives the     *)
(* line trimmed with every run of spaces replaced by one space; for a       *)
(* comment or blank line it gives the trimmed line itself.                  *)
(***************************************************************************)
C4_RoundTrip ==
    LET trimmed == Trim(line)
        plain == trimmed = <<>> \/ Head(trimmed) = "#"
        spaced == \A i \in DOMAIN trimmed : trimmed[i] # "\t"
    IN  linePc = "rendered" =>
            /\ plain => text = trimmed
            /\ (~plain /\ spaced) => text = CollapseSpaces(trimmed)

(***************************************************************************)
(* C5: the identifiers of the records read so far and of the store are      *)
(* strictly increasing in order, hence pairwise distinct, and once the      *)
(* store is loaded no step changes the identifier held at any position.     *)
(***************************************************************************)
C5_IdentifiersDistinctAndFixed ==
    /\ [](\A i, j \in DOMAIN lineModels : i < j => lineModels[i].id < lineModels[j].id)
    /\ [](\A i, j \in DOMAIN pending : i < j => pending[i].id < pending[j].id)
    /\ [][Loaded => [i \in DOMAIN lineModels' |-> lineModels'[i].id]
                       = [i \in DOMAIN lineModels |-> lineModels[i].id]]_vars

\* three records loaded and then edited by the user and by a renew
C5_Witness ==
    /\ Loaded
    /\ Len(lineModels) = 3
    /\ lineModels[1].isDeleted
    /\ lineModels[3].ipAddress = <<"9">>
    /\ searchString # JSUndefined

(***************************************************************************)
(* C6: whenever the ranked view can be computed, it holds every mapping     *)
(* record of the store exactly once, deleted ones included, and no          *)
(* comment-or-blank record.                                                 *)
(***************************************************************************)
C6_ViewIsExactlyTheMappings ==
    (Loaded /\ ~sortedEntriesThrows(lineModels)) =>
        LET view == sortedEntries(lineModels, searchString)
        IN  /\ \A j \in DOMAIN view : IsMapping(view[j])
            /\ \A i \in DOMAIN lineModels :
                  IsMapping(lineModels[i]) =>
                     Cardinality({j \in DOMAIN view : view[j] = lineModels[i]}) = 1

(***************************************************************************)
(* C7: every mapping record of the store has a non-empty domain list,       *)
(* which holds the whitespace-delimited tokens of its line after the        *)
(* first, in order.                                                         *)
(***************************************************************************)
C7_DomainsNeverEmpty ==
    \A i \in DOMAIN lineModels :
        (Loaded /\ IsMapping(lineModels[i])) =>
            /\ lineModels[i].domains # <<>>
            /\ lineModels[i].domains = Tail(WhiteSpaceTokens(file[i], <<>>))

(***************************************************************************)
(* C8: the step in which the last request of a renew operation succeeds,    *)
(* all others having succeeded, sets the record's address to the first      *)
(* candidate (element 0) of the response for the domain in position 0,      *)
(* whatever the order of arrival; a step of an operation that still has a   *)
(* request pending leaves the store unchanged.                              *)
(***************************************************************************)
C8_JoinAllThenFirstResponse ==
    [][\A o \in DOMAIN renews' :
          (Stepped(o) /\ Len(renews'[o].resp) > 0) =>
             /\ HasPending(renews'[o]) => lineModels' = lineModels
             /\ (AllSucceeded(renews'[o]) /\ renews'[o].entry \in DOMAIN lineModels') =>
                   lineModels'[renews'[o].entry].ipAddress =
                      (IF renews'[o].resp[1].ip_addresses = <<>> THEN JSUndefined
                       ELSE Head(renews'[o].resp[1].ip_addresses))]_vars

\* both lookups succeeded, the one for position 1 first; the address is the
\* first candidate of the response for position 0
C8_Witness ==
    \E o \in DOMAIN renews :
        /\ renews[o].order = <<2, 1>>
        /\ renews[o].resp[1].ip_addresses = << <<"9">>, <<"8">> >>
        /\ renews[o].resp[2] = [status |-> "ok", ip_addresses |-> <<>>]
        /\ renews[o].entry \in DOMAIN lineModels
        /\ lineModels[renews[o].entry].ipAddress = <<"9">>

(***************************************************************************)
(* C9: once the store is loaded no step changes its length, its order, an   *)
(* identifier, a domain list or a comment text; a step that changes a       *)
(* deleted flag changes that one flag and nothing else in the store and     *)
(* starts or advances no renew; a step that changes an address changes it   *)
(* on one record only, the record of a renew operation fulfilled by that    *)
(* step; a step that changes the search query changes no record.            *)
(***************************************************************************)
C9_FrameConditions ==
    [][Loaded =>
        /\ Len(lineModels') = Len(lineModels)
        /\ \A i \in DOMAIN lineModels :
              i \in DOMAIN lineModels' =>
                 /\ DOMAIN lineModels'[i] = DOMAIN lineModels[i]
                 /\ \A f \in DOMAIN lineModels[i] \ {"isDeleted", "ipAddress"} :
                       lineModels'[i][f] = lineModels[i][f]
                 /\ lineModels'[i].isDeleted # lineModels[i].isDeleted =>
                       /\ SameExcept(i, "isDeleted")
                       /\ \A j \in DOMAIN lineModels \ {i} : lineModels'[j] = lineModels[j]
                       /\ renews' = renews
                       /\ searchString' = searchString
                 /\ Prop(lineModels'[i], "ipAddress") # Prop(lineModels[i], "ipAddress") =>
                       /\ SameExcept(i, "ipAddress")
                       /\ \A j \in DOMAIN lineModels \ {i} : lineModels'[j] = lineModels[j]
                       /\ \E o \in DOMAIN renews :
                             /\ renews[o].entry = i
                             /\ renews[o].state = "pending"
                             /\ renews'[o].state = "fulfilled"
        /\ searchString' # searchString => lineModels' = lineModels]_vars

\* a renew completed on a record deleted meanwhile, after another renew of
\* the same record had failed, with a search query set
C9_Witness ==
    /\ Loaded
    /\ searchString = <<"b", "a">>
    /\ Len(renews) = 2
    /\ renews[1].entry = renews[2].entry
    /\ renews[1].state = "rejected"
    /\ renews[2].state = "fulfilled"
    /\ lineModels[renews[2].entry].isDeleted
    /\ lineModels[renews[2].entry].ipAddress = <<"9">>

(***************************************************************************)
(* C10: the store is empty until the line stream has closed, and is then    *)
(* filled in one step: in every state it is empty or holds one record for   *)
(* each line of the file, in file order.                                    *)
(***************************************************************************)
C10_StoreEmptyOrComplete ==
    /\ ~Loaded => lineModels = <<>>
    /\ lineModels # <<>> =>
          /\ Len(lineModels) = Len(file)
          /\ \A i \in DOMAIN lineModels :
                /\ lineModels[i].id = Parsed(i).id
                /\ IsMapping(lineModels[i]) = IsMapping(Parsed(i))

\* part of a three-line file has been read and nothing is in the store yet
C10_Witness ==
    /\ loadPc = "reading"
    /\ Len(file) = 3
    /\ Len(pending) = 2
    /\ lineModels = <<>>

====
